---- MODULE Spec2Model ----
(***************************************************************************)
(* Model of the FODMAP diary server: the HTTP handlers over the Level      *)
(* store (add, analyze, duplicate, update, delete), extractJSON and        *)
(* formatEntriesForAnalysis of llm.js.                                      *)
(*                                                                         *)
(* Abstractions.  A timestamp is the integer instant it denotes; the store *)
(* key is the ISO-8601 string of that instant, whose lexicographic order   *)
(* is the order of the instants for the years 0000..9999.  Objects whose   *)
(* inside no handler looks at (a factors map, a severity, a note) are      *)
(* opaque strings.  A field that is absent from an object holds Undef.     *)
(***************************************************************************)
EXTENDS Integers, Sequences, FiniteSets, TLC

\* ---------------------------------------------------------------- bounds
MaxTime == 1
MaxRequests == 2

MaxTokens == 5
MaxEntries == 3
Years == 2
DaysPerYear == 2
TicksPerDay == 2

Times == 0..MaxTime
Requests == 1..MaxRequests

\* ------------------------------------------------------------ JS values
Undef == "undefined"
Null == "null"
NoTimestamp == -1

\* JavaScript truthiness of the values a request field can hold.
Truthy(v) == v \notin {Undef, Null, ""}

\* String.prototype.trim on a text held as a sequence of characters.
RECURSIVE TrimStart(_)
TrimStart(s) ==
  IF s = <<>> THEN <<>>
  ELSE IF Head(s) = " " THEN TrimStart(Tail(s)) ELSE s

RECURSIVE TrimEnd(_)
TrimEnd(s) ==
  IF s = <<>> THEN <<>>
  ELSE IF s[Len(s)] = " " THEN TrimEnd(SubSeq(s, 1, Len(s) - 1)) ELSE s

Trim(s) == TrimEnd(TrimStart(s))

\* ------------------------------------------------------------- entries
Blank ==
  [type |-> Undef, text |-> <<>>, timestamp |-> NoTimestamp, factors |-> Undef,
   severity |-> Undef, tag |-> Undef, fodmaps |-> Undef, other |-> Undef,
   note |-> Undef]

\* The objects the classification may return: the two shapes the prompt asks
\* for, the legacy food shape, and an object carrying fields of its own
\* choosing (a type, a text, a timestamp, a tag).
ClassifyResults ==
  { [Blank EXCEPT !.type = "symptom", !.severity = "low", !.note = "n"],
    [Blank EXCEPT !.type = "food", !.text = <<"z">>, !.timestamp = 0,
                  !.fodmaps = "gA", !.other = "oA"] }

\* Entries a store may hold when the server starts, whose timestamp is
\* their key.
InitEntries(k) ==
  { [Blank EXCEPT !.type = "food", !.text = <<"a">>, !.timestamp = k,
                  !.factors = "fA", !.note = "n"] }

InitKeySets == { {}, {0} }

InitStores ==
  UNION { { f \in [S -> UNION { InitEntries(k) : k \in S }] :
              \A k \in S : f[k] \in InitEntries(k) } : S \in InitKeySets }

\* ------------------------------------------------------------ requests
Texts == { <<>>, <<" ">>, <<" ", "a">> }
NoDate == [kind |-> "undefined", t |-> 0]
CustomTimes ==
  { NoDate, [kind |-> "invalid", t |-> 0] }
    \cup { [kind |-> "date", t |-> t] : t \in Times }
FactorsArgs == { Undef, "fB" }
SeverityArgs == { Undef, "high" }
TagArgs == { Undef, Null, "safe" }
EntriesArgs == { Undef, "empty", "some" }

NoReq ==
  [op |-> "none", key |-> 0, factors |-> Undef, severity |-> Undef,
   tag |-> Undef]

NoRes == [status |-> 0, kind |-> "none", error |-> "", entry |-> Blank]
Redirect == [status |-> 302, kind |-> "redirect", error |-> "", entry |-> Blank]
ErrorPage(msg) == [status |-> 500, kind |-> "html", error |-> msg, entry |-> Blank]
ErrorJson(msg) == [status |-> 500, kind |-> "json", error |-> msg, entry |-> Blank]

VARIABLES
  store,   \* the Level database: key -> entry
  now,     \* the clock read by new Date()
  pc,      \* per request: where its handler stands
  req,     \* per request: the body fields its handler still uses
  timestamp, \* per request: the handler's local timestamp
  entry,   \* per request: the handler's local entry
  res,     \* per request: the response sent
  llm,     \* per request: whether an outbound LLM call was made
  text,    \* extractJSON: the input string
  out,     \* extractJSON: its outcome
  entries, \* formatEntriesForAnalysis: the input entries
  lines    \* formatEntriesForAnalysis: the output lines

vars == <<store, now, pc, req, timestamp, entry, res, llm, text, out, entries, lines>>
pureVars == <<text, out, entries, lines>>

\* -------------------------------------------------------------- Level
\* db.put writes one key, db.del removes one key and resolves whether or not
\* the key was there, db.get rejects with NotFound when the key is absent.
\* Each is one atomic step of the store.
dbPut(db, k, v) == [x \in DOMAIN db \cup {k} |-> IF x = k THEN v ELSE db[x]]
dbDel(db, k) == [x \in DOMAIN db \ {k} |-> db[x]]
dbHas(db, k) == k \in DOMAIN db

\* -------------------------------------------------------------- dates
\* new Date(customTime).toISOString(): RangeError on an invalid date.
toISOStringThrows(d) == d.kind = "invalid"
toISOString(d) == d.t

Respond(r, response) ==
  /\ res' = [res EXCEPT ![r] = response]
  /\ pc' = [pc EXCEPT ![r] = "done"]
  /\ entry' = [entry EXCEPT ![r] = Blank]
  /\ timestamp' = [timestamp EXCEPT ![r] = NoTimestamp]

\* Express takes the requests in the order they arrive.
Arrives(r) == pc[r] = "new" /\ \A q \in Requests : q < r => pc[q] # "new"

\* ---------------------------------------------------------- /api/add
addTimestamp(overrideTime, customTime) ==
  IF overrideTime /\ customTime.kind # "undefined"
    THEN toISOString(customTime) ELSE now

noteEntry(t, ts) ==
  [Blank EXCEPT !.type = "note", !.text = Trim(t), !.timestamp = ts]

\* The spread written last: { text, timestamp, ...result }
classifiedEntrySpreadLast(result, t, ts) ==
  [result EXCEPT
     !.text = IF result.text # <<>> THEN result.text ELSE t,
     !.timestamp = IF result.timestamp # NoTimestamp THEN result.timestamp
                   ELSE ts]

\* { ...result, text: text.trim(), timestamp }
classifiedEntry(result, t, ts) ==
  [result EXCEPT !.text = t, !.timestamp = ts]

AddStart(r, t, isNote, overrideTime, customTime) ==
  /\ Arrives(r)
  /\ req' = [req EXCEPT ![r] = [NoReq EXCEPT !.op = "add"]]
  /\ IF t = <<>> \/ Trim(t) = <<>>
       THEN /\ Respond(r, Redirect)
            /\ UNCHANGED llm
       ELSE IF overrideTime /\ customTime.kind # "undefined"
                 /\ toISOStringThrows(customTime)
         THEN /\ Respond(r, ErrorPage("Invalid time value"))
              /\ UNCHANGED llm
         ELSE IF isNote
           THEN /\ timestamp' = [timestamp EXCEPT ![r] =
                       addTimestamp(overrideTime, customTime)]
                /\ entry' = [entry EXCEPT ![r] =
                       noteEntry(t, addTimestamp(overrideTime, customTime))]
                /\ pc' = [pc EXCEPT ![r] = "add_put"]
                /\ UNCHANGED <<res, llm>>
           ELSE /\ timestamp' = [timestamp EXCEPT ![r] =
                       addTimestamp(overrideTime, customTime)]
                /\ entry' = [entry EXCEPT ![r] = [Blank EXCEPT !.text = Trim(t)]]
                /\ llm' = [llm EXCEPT ![r] = TRUE]
                /\ pc' = [pc EXCEPT ![r] = "add_classify"]
                /\ UNCHANGED res
  /\ UNCHANGED <<store, now>>

\* classify() resolves with the object extracted from the LLM's answer.
AddClassified(r, result) ==
  /\ pc[r] = "add_classify"
  /\ entry' = [entry EXCEPT ![r] =
        classifiedEntry(result, entry[r].text, timestamp[r])]
  /\ pc' = [pc EXCEPT ![r] = "add_put"]
  /\ UNCHANGED <<store, now, req, timestamp, res, llm>>

\* classify() rejects: remote failure or no JSON in the answer.
AddClassifyFailed(r) ==
  /\ pc[r] = "add_classify"
  /\ Respond(r, ErrorPage("Failed to parse LLM response"))
  /\ UNCHANGED <<store, now, req, llm>>

AddPut(r) ==
  /\ pc[r] = "add_put"
  /\ store' = dbPut(store, timestamp[r], entry[r])
  /\ Respond(r, Redirect)
  /\ UNCHANGED <<now, req, llm>>

\* ------------------------------------------------------ /api/analyze
AnalyzeStart(r, es) ==
  /\ Arrives(r)
  /\ req' = [req EXCEPT ![r] = [NoReq EXCEPT !.op = "analyze"]]
  /\ IF es = Undef \/ es = "empty"
       THEN /\ Respond(r, [status |-> 200, kind |-> "json",
                           error |-> "No entries found in selected date range",
                           entry |-> Blank])
            /\ UNCHANGED llm
       ELSE /\ llm' = [llm EXCEPT ![r] = TRUE]
            /\ pc' = [pc EXCEPT ![r] = "analyze_llm"]
            /\ UNCHANGED <<res, entry, timestamp>>
  /\ UNCHANGED <<store, now>>

AnalyzeDone(r, ok) ==
  /\ pc[r] = "analyze_llm"
  /\ Respond(r, IF ok
       THEN [status |-> 200, kind |-> "json", error |-> "", entry |-> Blank]
       ELSE ErrorJson("Groq API error"))
  /\ UNCHANGED <<store, now, req, llm>>

\* ---------------------------------------------------- /api/duplicate
\* The spread written last: { timestamp, ...original }
duplicateEntrySpreadLast(original, ts) == original

\* { ...original, timestamp }
duplicateEntry(original, ts) == [original EXCEPT !.timestamp = ts]

DuplicateGet(r, k) ==
  /\ Arrives(r)
  /\ IF dbHas(store, k)
       THEN /\ req' = [req EXCEPT ![r] =
                   [NoReq EXCEPT !.op = "duplicate", !.key = k]]
            /\ timestamp' = [timestamp EXCEPT ![r] = now]
            /\ entry' = [entry EXCEPT ![r] = duplicateEntry(store[k], now)]
            /\ pc' = [pc EXCEPT ![r] = "duplicate_put"]
            /\ UNCHANGED res
       ELSE /\ req' = [req EXCEPT ![r] = [NoReq EXCEPT !.op = "duplicate"]]
            /\ Respond(r, ErrorPage("NotFound"))
  /\ UNCHANGED <<store, now, llm>>

DuplicatePut(r) ==
  /\ pc[r] = "duplicate_put"
  /\ store' = dbPut(store, timestamp[r], entry[r])
  /\ Respond(r, Redirect)
  /\ UNCHANGED <<now, req, llm>>

\* ------------------------------------------------------- /api/update
toggleTagAlwaysSets(current, tag) == tag

toggleTag(current, tag) == IF current = tag THEN Null ELSE tag

patchEntry(e, factors, severity, tag) ==
  LET e1 == IF Truthy(factors)
              THEN [e EXCEPT !.factors = factors, !.fodmaps = Undef,
                             !.other = Undef]
              ELSE e
      e2 == IF Truthy(severity) THEN [e1 EXCEPT !.severity = severity] ELSE e1
  IN  IF tag # Undef THEN [e2 EXCEPT !.tag = toggleTag(e2.tag, tag)] ELSE e2

UpdateGet(r, k, factors, severity, tag) ==
  /\ Arrives(r)
  /\ IF dbHas(store, k)
       THEN /\ req' = [req EXCEPT ![r] =
                   [op |-> "update", key |-> k, factors |-> factors,
                    severity |-> severity, tag |-> tag]]
            /\ entry' = [entry EXCEPT ![r] =
                   patchEntry(store[k], factors, severity, tag)]
            /\ pc' = [pc EXCEPT ![r] = "update_put"]
            /\ UNCHANGED <<res, timestamp>>
       ELSE /\ req' = [req EXCEPT ![r] = [NoReq EXCEPT !.op = "update"]]
            /\ Respond(r, ErrorJson("NotFound"))
  /\ UNCHANGED <<store, now, llm>>

UpdatePut(r) ==
  /\ pc[r] = "update_put"
  /\ store' = dbPut(store, req[r].key, entry[r])
  /\ Respond(r, [status |-> 200, kind |-> "json", error |-> "",
                 entry |-> entry[r]])
  /\ UNCHANGED <<now, req, llm>>

\* ------------------------------------------------------- /api/delete
\* A db.del that rejects an absent key
DeleteThrowsNotFound(r, k) ==
  /\ Arrives(r)
  /\ req' = [req EXCEPT ![r] = [NoReq EXCEPT !.op = "delete", !.key = k]]
  /\ store' = dbDel(store, k)
  /\ Respond(r, IF dbHas(store, k) THEN Redirect ELSE ErrorPage("NotFound"))
  /\ UNCHANGED <<now, llm>>

Delete(r, k) ==
  /\ Arrives(r)
  /\ req' = [req EXCEPT ![r] = [NoReq EXCEPT !.op = "delete", !.key = k]]
  /\ store' = dbDel(store, k)
  /\ Respond(r, Redirect)
  /\ UNCHANGED <<now, llm>>

\* The clock advances.
Tick ==
  /\ now < MaxTime
  /\ now' = now + 1
  /\ UNCHANGED <<store, pc, req, timestamp, entry, res, llm>>


\* ------------------------------------------------------- extractJSON
\* The LLM's answer is a sequence of characters, built from these pieces: a
\* brace, a key with its colon, a number, a letter of prose, a string
\* holding a brace.
Tokens ==
  { <<"{">>, <<"}">>, <<"\"", "k", "\"", ":">>, <<"1">>, <<"p">>,
    <<"\"", "}", "\"">> }

RECURSIVE Flatten(_)
Flatten(ts) == IF ts = <<>> THEN <<>> ELSE Head(ts) \o Flatten(Tail(ts))

Answers ==
  { Flatten(ts) : ts \in UNION { [1..n -> Tokens] : n \in 0..MaxTokens } }

\* JSON.parse over these characters: an object is {} or {string:value}, a
\* value is an object, a string or a number; there is no white space, no
\* escape and no comma among the characters.  Each parser returns the
\* position after what it parsed, 0 when it fails.
RECURSIVE parseStringEnd(_, _)
parseStringEnd(s, i) ==
  IF i > Len(s) THEN 0
  ELSE IF s[i] = "\"" THEN i + 1 ELSE parseStringEnd(s, i + 1)

parseString(s, i) ==
  IF i <= Len(s) /\ s[i] = "\"" THEN parseStringEnd(s, i + 1) ELSE 0

RECURSIVE parseNumber(_, _)
parseNumber(s, i) ==
  IF i <= Len(s) /\ s[i] = "1"
    THEN (IF i + 1 <= Len(s) /\ s[i + 1] = "1" THEN parseNumber(s, i + 1)
          ELSE i + 1)
    ELSE 0

RECURSIVE parseValue(_, _)
parseObject(s, i) ==
  IF i + 1 <= Len(s) /\ s[i] = "{"
    THEN IF s[i + 1] = "}" THEN i + 2
         ELSE LET c == parseString(s, i + 1)
              IN  IF c # 0 /\ c <= Len(s) /\ s[c] = ":"
                    THEN LET e == parseValue(s, c + 1)
                         IN  IF e # 0 /\ e <= Len(s) /\ s[e] = "}"
                               THEN e + 1 ELSE 0
                    ELSE 0
    ELSE 0

parseValue(s, i) ==
  IF i > Len(s) THEN 0
  ELSE IF s[i] = "{" THEN parseObject(s, i)
  ELSE IF s[i] = "\"" THEN parseString(s, i)
  ELSE parseNumber(s, i)

\* JSON.parse(jsonStr) does not throw.  The value it returns is held as the
\* text parsed: over these characters two texts that parse denote the same
\* value only if they are the same text.
JSONparses(s) == parseValue(s, 1) = Len(s) + 1

EmptyInput == [kind |-> "EmptyInput", value |-> <<>>]
NoJsonFound == [kind |-> "NoJsonFound", value |-> <<>>]
Returned(v) == [kind |-> "value", value |-> v]

\* The for loop of extractJSON from position i on; start 0 is the code's -1.
RECURSIVE scanBraces(_, _, _, _)
scanBraces(t, i, depth, start) ==
  IF i > Len(t) THEN NoJsonFound
  ELSE IF t[i] = "{"
    THEN scanBraces(t, i + 1, depth + 1, IF depth = 0 THEN i ELSE start)
  ELSE IF t[i] = "}"
    THEN IF depth - 1 = 0 /\ start # 0
           THEN IF JSONparses(SubSeq(t, start, i))
                  THEN Returned(SubSeq(t, start, i))
                  ELSE scanBraces(t, i + 1, depth - 1, 0)
           ELSE scanBraces(t, i + 1, depth - 1, start)
  ELSE scanBraces(t, i + 1, depth, start)

\* extractJSON without its first line
extractJSONNoEmptyCheck(t) == scanBraces(t, 1, 0, 0)

extractJSON(t) == IF t = <<>> THEN EmptyInput ELSE scanBraces(t, 1, 0, 0)

Extract ==
  /\ out.kind = "none"
  /\ out' = extractJSON(text)
  /\ UNCHANGED <<store, now, pc, req, timestamp, entry, res, llm, text,
                 entries, lines>>

\* ------------------------------------------ formatEntriesForAnalysis
\* A timestamp is a tick of a calendar of Years years of DaysPerYear days of
\* TicksPerDay ticks, in local time.
Instants == 0..(Years * DaysPerYear * TicksPerDay - 1)
yearOf(t) == t \div (DaysPerYear * TicksPerDay)
dayOf(t) == (t \div TicksPerDay) % DaysPerYear
\* toLocaleDateString('en-US', { month: 'short', day: 'numeric' })
toLocaleDateString(t) == dayOf(t)
\* toLocaleTimeString('en-US', { hour: 'numeric', minute: '2-digit' })
toLocaleTimeString(t) == t % TicksPerDay

EntryTypes == { "food", "symptom", "note", Undef }

\* The keys of byDate in insertion order.
RECURSIVE dateKeys(_, _)
dateKeys(es, seen) ==
  IF es = <<>> THEN seen
  ELSE LET d == toLocaleDateString(Head(es).timestamp)
       IN  dateKeys(Tail(es),
                    IF \E i \in 1..Len(seen) : seen[i] = d THEN seen
                    ELSE Append(seen, d))

\* byDate[dateKey]
dayEntriesOf(es, d) ==
  SelectSeq(es, LAMBDA e : toLocaleDateString(e.timestamp) = d)

\* Array.prototype.sort((a, b) => a.date - b.date), which is stable.
RECURSIVE insertByDate(_, _)
insertByDate(sorted, e) ==
  IF sorted = <<>> THEN <<e>>
  ELSE IF Head(sorted).timestamp <= e.timestamp
    THEN <<Head(sorted)>> \o insertByDate(Tail(sorted), e)
    ELSE <<e>> \o sorted

RECURSIVE sortByDate(_)
sortByDate(es) ==
  IF es = <<>> THEN <<>>
  ELSE insertByDate(sortByDate(SubSeq(es, 1, Len(es) - 1)), es[Len(es)])

headerLine(d) == [kind |-> "date", date |-> d, time |-> 0, text |-> 0]
entryLine(e) ==
  [kind |-> e.type, date |-> 0, time |-> toLocaleTimeString(e.timestamp),
   text |-> e.text]

RECURSIVE entryLines(_)
entryLines(es) ==
  IF es = <<>> THEN <<>>
  ELSE (IF Head(es).type \in { "food", "symptom", "note" }
          THEN <<entryLine(Head(es))>> ELSE <<>>) \o entryLines(Tail(es))

RECURSIVE dayLines(_, _)
dayLines(es, ds) ==
  IF ds = <<>> THEN <<>>
  ELSE <<headerLine(Head(ds))>>
         \o entryLines(sortByDate(dayEntriesOf(es, Head(ds))))
         \o dayLines(es, Tail(ds))

formatEntriesForAnalysis(es) == dayLines(es, dateKeys(es, <<>>))

\* analyze() formats the entries of the request, which the handler has found
\* not to be empty.
Format ==
  /\ lines = <<>>
  /\ entries # <<>>
  /\ lines' = formatEntriesForAnalysis(entries)
  /\ UNCHANGED <<store, now, pc, req, timestamp, entry, res, llm, text, out,
                 entries>>

\* ---------------------------------------------------- specification
Init ==
  /\ store \in InitStores
  /\ now = 0
  /\ pc = [r \in Requests |-> "new"]
  /\ req = [r \in Requests |-> NoReq]
  /\ timestamp = [r \in Requests |-> NoTimestamp]
  /\ entry = [r \in Requests |-> Blank]
  /\ res = [r \in Requests |-> NoRes]
  /\ llm = [r \in Requests |-> FALSE]
  /\ text = <<>>
  /\ out = [kind |-> "none", value |-> <<>>]
  /\ entries = <<>>
  /\ lines = <<>>

Next ==
  \/ \E r \in Requests, t \in Texts, isNote \in BOOLEAN,
        overrideTime \in BOOLEAN, customTime \in CustomTimes :
       AddStart(r, t, isNote, overrideTime, customTime) /\ UNCHANGED pureVars
  \/ \E r \in Requests, result \in ClassifyResults :
       AddClassified(r, result) /\ UNCHANGED pureVars
  \/ \E r \in Requests : AddClassifyFailed(r) /\ UNCHANGED pureVars
  \/ \E r \in Requests : AddPut(r) /\ UNCHANGED pureVars
  \/ \E r \in Requests, es \in EntriesArgs :
       AnalyzeStart(r, es) /\ UNCHANGED pureVars
  \/ \E r \in Requests, ok \in BOOLEAN : AnalyzeDone(r, ok) /\ UNCHANGED pureVars
  \/ \E r \in Requests, k \in Times : DuplicateGet(r, k) /\ UNCHANGED pureVars
  \/ \E r \in Requests : DuplicatePut(r) /\ UNCHANGED pureVars
  \/ \E r \in Requests, k \in Times, factors \in FactorsArgs,
        severity \in SeverityArgs, tag \in TagArgs :
       UpdateGet(r, k, factors, severity, tag) /\ UNCHANGED pureVars
  \/ \E r \in Requests : UpdatePut(r) /\ UNCHANGED pureVars
  \/ \E r \in Requests, k \in Times : Delete(r, k) /\ UNCHANGED pureVars
  \/ Tick /\ UNCHANGED pureVars

Spec == Init /\ [][Next]_vars

Idle ==
  /\ store = << >>
  /\ now = 0
  /\ pc = [r \in Requests |-> "new"]
  /\ req = [r \in Requests |-> NoReq]
  /\ timestamp = [r \in Requests |-> NoTimestamp]
  /\ entry = [r \in Requests |-> Blank]
  /\ res = [r \in Requests |-> NoRes]
  /\ llm = [r \in Requests |-> FALSE]

\* extractJSON applied to every answer.
InitExtract ==
  /\ Idle
  /\ text \in Answers
  /\ out = [kind |-> "none", value |-> <<>>]
  /\ entries = <<>>
  /\ lines = <<>>

NextExtract == Extract

SpecExtract == InitExtract /\ [][NextExtract]_vars

\* formatEntriesForAnalysis applied to every list of entries; the text of an
\* entry is its position in the list.
InputEntries ==
  UNION { { es \in [1..n -> [timestamp : Instants, type : EntryTypes,
                             text : 1..MaxEntries]] :
              \A i \in 1..n : es[i].text = i } : n \in 0..MaxEntries }

InitFormat ==
  /\ Idle
  /\ text = <<>>
  /\ out = [kind |-> "none", value |-> <<>>]
  /\ entries \in InputEntries
  /\ lines = <<>>

NextFormat == Format

SpecFormat == InitFormat /\ [][NextFormat]_vars

\* ------------------------------------------------------------ claims
sameExceptTimestamp(a, b) ==
  [a EXCEPT !.timestamp = NoTimestamp] = [b EXCEPT !.timestamp = NoTimestamp]
sameExceptTag(a, b) == [a EXCEPT !.tag = Undef] = [b EXCEPT !.tag = Undef]

\* The steps of the handlers, told by the places they leave and reach.
deleteRuns(r) == pc[r] = "new" /\ req'[r].op = "delete"
duplicateReads(r) == pc[r] = "new" /\ pc'[r] = "duplicate_put"
duplicateWrites(r) == pc[r] = "duplicate_put" /\ pc'[r] = "done"
updateReads(r) == pc[r] = "new" /\ pc'[r] = "update_put"
updateWrites(r) == pc[r] = "update_put" /\ pc'[r] = "done"

\* C1 (as claimed): a delete request for a key that is not in the store ends
\* in a 500 error response and leaves the store as it was.
C1_DeleteAbsentFails ==
  [][\A r \in Requests :
       (deleteRuns(r) /\ ~dbHas(store, req'[r].key))
         => (res'[r].status = 500 /\ store' = store)]_vars

\* C1 (amended): a delete request for a key that is not in the store ends in
\* the redirect of a successful delete and leaves the store as it was.
C1_DeleteAbsentRedirects ==
  [][\A r \in Requests :
       (deleteRuns(r) /\ ~dbHas(store, req'[r].key))
         => (res'[r] = Redirect /\ store' = store)]_vars

\* A delete of a key the store never held has been answered, and the store
\* still holds its entry.
C1_Witness ==
  \E r \in Requests :
    /\ req[r].op = "delete" /\ pc[r] = "done" /\ res[r] = Redirect
    /\ \A q \in Requests \ {r} : pc[q] = "new"
    /\ DOMAIN store # {}
    /\ ~dbHas(store, req[r].key)

\* C2 (as claimed): a duplicate of the entry under k builds a copy equal to
\* it in every field but timestamp, under a key strictly greater than k, and
\* stores it under that key.
C2_DuplicateStrictlyLater ==
  [][/\ \A r \in Requests :
          duplicateReads(r)
            => /\ dbHas(store, req'[r].key)
               /\ sameExceptTimestamp(entry'[r], store[req'[r].key])
               /\ entry'[r].timestamp = timestamp'[r]
               /\ timestamp'[r] > req'[r].key
     /\ \A r \in Requests :
          duplicateWrites(r)
            => /\ dbHas(store', timestamp[r])
               /\ store'[timestamp[r]] = entry[r]
               /\ res'[r] = Redirect]_vars

\* C2 (amended): a duplicate of the entry under k builds a copy equal to it
\* in every field but timestamp, under the key of the clock's present time,
\* which is strictly greater than k exactly when k is before that time, and
\* stores it under that key.
C2_DuplicateAtClock ==
  [][/\ \A r \in Requests :
          duplicateReads(r)
            => /\ dbHas(store, req'[r].key)
               /\ sameExceptTimestamp(entry'[r], store[req'[r].key])
               /\ entry'[r].timestamp = timestamp'[r]
               /\ timestamp'[r] = now
               /\ (timestamp'[r] > req'[r].key <=> req'[r].key < now)
     /\ \A r \in Requests :
          duplicateWrites(r)
            => /\ dbHas(store', timestamp[r])
               /\ store'[timestamp[r]] = entry[r]
               /\ res'[r] = Redirect]_vars

\* A duplicate has succeeded and its copy sits under a later key than the
\* original.
C2_Witness ==
  \E r \in Requests :
    /\ req[r].op = "duplicate" /\ pc[r] = "done" /\ res[r] = Redirect
    /\ dbHas(store, req[r].key)
    /\ \E k2 \in DOMAIN store :
         /\ k2 > req[r].key
         /\ sameExceptTimestamp(store[k2], store[req[r].key])

\* C3: an update carrying the tag the entry already has clears the tag and,
\* carrying nothing else, changes no other field; the entry written is the
\* patched one; and two updates with one tag applied in turn to an untagged
\* entry leave it untagged with every other field as it was.
C3_SameTagClears ==
  [][/\ \A r \in Requests :
          ( /\ updateReads(r)
            /\ req'[r].tag # Undef
            /\ store[req'[r].key].tag = req'[r].tag )
            => /\ entry'[r].tag = Null
               /\ (~Truthy(req'[r].factors) /\ ~Truthy(req'[r].severity))
                    => sameExceptTag(entry'[r], store[req'[r].key])
     /\ \A r \in Requests :
          updateWrites(r)
            => /\ store'[req[r].key] = entry[r]
               /\ res'[r].entry = entry[r]
     /\ \A k \in DOMAIN store, t \in TagArgs \ {Undef} :
          store[k].tag \in {Undef, Null}
            => LET once == patchEntry(store[k], Undef, Undef, t)
                   twice == patchEntry(once, Undef, Undef, t)
               IN  /\ twice.tag = Null
                   /\ sameExceptTag(twice, store[k])]_vars

\* Two updates with the tag "safe" ran in turn on one entry: the first set
\* the tag, the second cleared it.
C3_Witness ==
  \E p, q \in Requests :
    /\ p # q
    /\ req[p].op = "update" /\ req[q].op = "update"
    /\ pc[p] = "done" /\ pc[q] = "done"
    /\ req[p].key = req[q].key
    /\ req[p].tag = "safe" /\ req[q].tag = "safe"
    /\ res[p].status = 200 /\ res[p].entry.tag = "safe"
    /\ res[q].status = 200 /\ res[q].entry.tag = Null
    /\ dbHas(store, req[q].key) /\ store[req[q].key].tag = Null

\* An answer holds exactly one JSON object: among the stretches of the text
\* that parse as an object, one holds all the others.
objectsIn(t) ==
  { ij \in (1..Len(t)) \X (1..Len(t)) :
      ij[1] < ij[2] /\ t[ij[1]] = "{" /\ JSONparses(SubSeq(t, ij[1], ij[2])) }
outerObjectsIn(t) ==
  { ij \in objectsIn(t) :
      ~\E o \in objectsIn(t) : o # ij /\ o[1] <= ij[1] /\ ij[2] <= o[2] }
hasBrace(t) == \E i \in 1..Len(t) : t[i] \in { "{", "}" }

\* C4: for an answer holding exactly one JSON object, with any text before
\* and after it, extractJSON returns that object.
C4_ReturnsTheObject ==
  (out.kind # "none" /\ Cardinality(outerObjectsIn(text)) = 1)
    => \E ij \in outerObjectsIn(text) :
         out = Returned(SubSeq(text, ij[1], ij[2]))

\* C5: extractJSON fails with EmptyInput on the empty string, with
\* NoJsonFound on a string without braces, and returns a value only if it is
\* a stretch of the text that parses as an object.
C5_NoValueWithoutCandidate ==
  out.kind # "none"
    => /\ text = <<>> => out = EmptyInput
       /\ (text # <<>> /\ ~hasBrace(text)) => out = NoJsonFound
       /\ objectsIn(text) = {} => out.kind \in { "EmptyInput", "NoJsonFound" }
       /\ out.kind = "value"
            => \E ij \in objectsIn(text) :
                 out.value = SubSeq(text, ij[1], ij[2])

\* extractJSON has failed with NoJsonFound on a text without braces.
C5_Witness ==
  /\ out = NoJsonFound
  /\ Len(text) >= 2
  /\ ~hasBrace(text)

\* C6: an analyze request with no entries is answered with status 500 and an
\* error message, and no LLM call is made.
C6_EmptyAnalyzeIs500 ==
  [][\A r \in Requests, es \in { Undef, "empty" } :
       AnalyzeStart(r, es)
         => /\ res'[r].status = 500
            /\ res'[r].kind = "json"
            /\ res'[r].error # ""
            /\ ~llm'[r]]_vars

\* C7: while a key stays in the store, the type of its entry does not change.
C7_TypeNeverChanges ==
  [][\A k \in DOMAIN store \cap DOMAIN store' :
       store'[k].type = store[k].type]_vars

\* C8: when two updates of one key have both reported success and no other
\* request has run, the stored entry and the two reported entries are those
\* of running the two updates one after the other in some order.
ranInTurn(p, q) ==
  /\ res[q].entry =
       patchEntry(res[p].entry, req[q].factors, req[q].severity, req[q].tag)
  /\ store[req[q].key] = res[q].entry

C8_UpdatesRunInSomeOrder ==
  \A p, q \in Requests :
    ( /\ p # q
      /\ req[p].op = "update" /\ req[q].op = "update"
      /\ pc[p] = "done" /\ pc[q] = "done"
      /\ res[p].status = 200 /\ res[q].status = 200
      /\ req[p].key = req[q].key
      /\ \A r \in Requests \ {p, q} : pc[r] = "new" )
    => /\ dbHas(store, req[p].key)
       /\ ranInTurn(p, q) \/ ranInTurn(q, p)

\* The headers of the output and the place of an entry in it.
headerOf(p) ==
  CHOOSE h \in 1..p :
    /\ lines[h].kind = "date"
    /\ \A g \in (h + 1)..p : lines[g].kind # "date"
placesOf(i) ==
  { p \in 1..Len(lines) : lines[p].kind # "date" /\ lines[p].text = i }
shown == { i \in 1..Len(entries) :
             entries[i].type \in { "food", "symptom", "note" } }
calendarDate(t) == <<yearOf(t), dayOf(t)>>
firstWith(d) ==
  CHOOSE i \in 1..Len(entries) :
    /\ toLocaleDateString(entries[i].timestamp) = d
    /\ \A j \in 1..(i - 1) : toLocaleDateString(entries[j].timestamp) # d

\* C9: every food, symptom or note entry has exactly one line; two of them
\* are under one header if and only if they are of one calendar date; the
\* headers come in the order their dates first come in the input; the lines
\* under a header are in ascending order of timestamp.
C9_GroupsByCalendarDate ==
  lines # <<>>
    => /\ \A i \in shown : Cardinality(placesOf(i)) = 1
       /\ \A i \in 1..Len(entries) : i \notin shown => placesOf(i) = {}
       /\ \A i, j \in shown :
            \A p \in placesOf(i), q \in placesOf(j) :
              (headerOf(p) = headerOf(q))
                <=> (calendarDate(entries[i].timestamp)
                       = calendarDate(entries[j].timestamp))
       /\ \A g, h \in 1..Len(lines) :
            (g < h /\ lines[g].kind = "date" /\ lines[h].kind = "date")
              => firstWith(lines[g].date) < firstWith(lines[h].date)
       /\ \A p \in 1..(Len(lines) - 1) :
            (lines[p].kind # "date" /\ lines[p + 1].kind # "date")
              => entries[lines[p].text].timestamp
                   <= entries[lines[p + 1].text].timestamp

\* C10: the timestamp field of every stored record is its key.
C10_TimestampIsKey ==
  \A k \in DOMAIN store : store[k].timestamp = k

\* An entry classified with a timestamp and a text of the LLM's own is
\* stored under another key, and an update has patched a stored entry.
C10_Witness ==
  /\ \E k \in DOMAIN store :
       store[k].fodmaps = "gA" /\ k # 0 /\ store[k].text = <<"a">>
  /\ \E r \in Requests :
       req[r].op = "update" /\ pc[r] = "done" /\ res[r].status = 200

\* C11: once a delete request for key k has been answered with success and k
\* is absent, a step makes k present only if it is the put of an add or of a
\* duplicate under k; the put of an update never brings k back.
C11_DeletedStaysDeleted ==
  [][\A k \in Times :
       ( /\ ~dbHas(store, k)
         /\ \E d \in Requests :
              /\ req[d].op = "delete" /\ req[d].key = k
              /\ pc[d] = "done" /\ res[d] = Redirect
         /\ dbHas(store', k) )
         => \E r \in Requests :
              /\ pc[r] \in { "add_put", "duplicate_put" }
              /\ pc'[r] = "done"
              /\ timestamp[r] = k]_vars
====
